---- MODULE Spec2Model ----
(***************************************************************************)
(* A model of the sales-forecast service: the SalesForecaster class of     *)
(* src/model.py (its in-memory estimator, its is_trained flag and the      *)
(* sales_model.joblib artifact) and the GET /forecast handler and the      *)
(* start-up training of src/app.py.                                        *)
(*                                                                         *)
(* An estimator is opaque: it is known by the identity of the training     *)
(* that constructed it and by whether fit() has completed on it.  Time is  *)
(* a day number counted from the anchor date of generate_sample_data       *)
(* (2022-01-01) plus a time of day.  sin and cos values are kept as the    *)
(* exact fraction of the turn they are taken at.                           *)
(***************************************************************************)
EXTENDS Integers, Sequences, FiniteSets, TLC

VARIABLES model, is_trained, artifact, built, phase, last, fcLog, response, enc,
          threads

vars == <<model, is_trained, artifact, built, phase, last, fcLog, response, enc,
          threads>>

(***************************************************************************)
(* Bounds of the model.                                                    *)
(***************************************************************************)
\* estimators one process may construct (calls of train_model that reach line 77)
MaxTrain == 2
\* a call finds the clock at one of the days 0..MaxDay after the anchor date
MaxDay == 0
\* and at one of the times of day 0..MaxTod
MaxTod == 1
\* largest day count passed to forecast() directly
MaxDays == 1
\* the dates 0..MaxEncDay are encoded on both paths
MaxEncDay == 800
\* sales values 0..MaxSales a generated record may carry
MaxSales == 1
\* threads of the server that call the forecaster at the same time
MaxThreads == 2

(***************************************************************************)
(* The calendar, as pandas derives it from a date (DatetimeIndex.dayofweek,*)
(* .day, .month, .isocalendar().week).  Day 0 is 2022-01-01, a Saturday.   *)
(***************************************************************************)
AnchorYear == 2022
AnchorDayOfWeek == 5

IsLeap(y) == (y % 4 = 0 /\ y % 100 # 0) \/ y % 400 = 0

DaysInYear(y) == IF IsLeap(y) THEN 366 ELSE 365

DaysInMonth(y, m) ==
    IF m = 2 THEN (IF IsLeap(y) THEN 29 ELSE 28)
    ELSE IF m \in {4, 6, 9, 11} THEN 30 ELSE 31

RECURSIVE YearFrom(_, _)
\* <<year, 0-based day of that year>> of the n-th day counted from 1 January of y
YearFrom(y, n) ==
    IF n < 0 THEN YearFrom(y - 1, n + DaysInYear(y - 1))
    ELSE IF n >= DaysInYear(y) THEN YearFrom(y + 1, n - DaysInYear(y))
    ELSE <<y, n>>

RECURSIVE MonthFrom(_, _, _)
\* <<month, day of month>> of the 0-based day n of year y, counted from month m
MonthFrom(y, m, n) ==
    IF n >= DaysInMonth(y, m) THEN MonthFrom(y, m + 1, n - DaysInMonth(y, m))
    ELSE <<m, n + 1>>

YearOf(d) == YearFrom(AnchorYear, d)[1]
DayOfYear(d) == YearFrom(AnchorYear, d)[2] + 1
MonthOf(d) == MonthFrom(YearOf(d), 1, DayOfYear(d) - 1)[1]
DayOfMonth(d) == MonthFrom(YearOf(d), 1, DayOfYear(d) - 1)[2]
DayOfWeek(d) == (AnchorDayOfWeek + d) % 7

\* weekday (Monday = 0) of 1 January of the year of day d, and of the year before
Jan1Dow(d) == DayOfWeek(d - (DayOfYear(d) - 1))
PrevJan1Dow(d) == DayOfWeek(d - (DayOfYear(d) - 1) - DaysInYear(YearOf(d) - 1))

\* ISO 8601: a year has 53 weeks when it starts on a Thursday, or on a
\* Wednesday and is a leap year
LongYear(jan1dow, leap) == jan1dow = 3 \/ (jan1dow = 2 /\ leap)

IsoWeek(d) ==
    LET w == (DayOfYear(d) - (DayOfWeek(d) + 1) + 10) \div 7
    IN  IF w < 1
        THEN (IF LongYear(PrevJan1Dow(d), IsLeap(YearOf(d) - 1)) THEN 53 ELSE 52)
        ELSE IF w = 53 /\ ~LongYear(Jan1Dow(d), IsLeap(YearOf(d))) THEN 1
        ELSE w

(***************************************************************************)
(* Timestamps.                                                             *)
(***************************************************************************)
Timestamp(d, t) == [day |-> d, tod |-> t]

\* pd.Timestamp.normalize(): the start of the timestamp's day
Normalize(ts) == [ts EXCEPT !.tod = 0]

\* ts + pd.Timedelta(days=n)
AddDays(ts, n) == [ts EXCEPT !.day = @ + n]

\* pd.date_range(start, periods, freq='D'), for periods >= 0
DateRange(start, periods) == [i \in 1..periods |-> AddDays(start, i - 1)]

(***************************************************************************)
(* Numbers of the data frames: an integer, or sin / cos taken at the       *)
(* fraction num/den of a full turn (np.sin(2 * np.pi * num / den)).        *)
(***************************************************************************)
Int_(v) == [fn |-> "int", num |-> v, den |-> 1]
Sin(k, n) == [fn |-> "sin", num |-> k, den |-> n]
Cos(k, n) == [fn |-> "cos", num |-> k, den |-> n]

\* one record of generate_sample_data: the date d days after the anchor,
\* carrying the sales value s
GenerateRow(d, s) ==
    [date         |-> Timestamp(d, 0),
     sales        |-> Int_(s),
     day_of_week  |-> Int_(DayOfWeek(d)),
     day_of_month |-> Int_(DayOfMonth(d)),
     month        |-> Int_(MonthOf(d)),
     week_of_year |-> Int_(IsoWeek(d))]

\* FutureRow with the week counted from 1 January instead of the ISO week
FutureRowOrdinalWeek(ts) ==
    [date         |-> ts,
     day_of_week  |-> Int_(DayOfWeek(ts.day)),
     day_of_month |-> Int_(DayOfMonth(ts.day)),
     month        |-> Int_(MonthOf(ts.day)),
     week_of_year |-> Int_((DayOfYear(ts.day) - 1) \div 7 + 1)]

\* one row of forecast()'s future_df, for the date ts
FutureRow(ts) ==
    [date         |-> ts,
     day_of_week  |-> Int_(DayOfWeek(ts.day)),
     day_of_month |-> Int_(DayOfMonth(ts.day)),
     month        |-> Int_(MonthOf(ts.day)),
     week_of_year |-> Int_(IsoWeek(ts.day))]

\* create_features, on one row
CreateFeatures(row) ==
    row @@ [day_sin   |-> Sin(row.day_of_week.num, 7),
            day_cos   |-> Cos(row.day_of_week.num, 7),
            month_sin |-> Sin(row.month.num, 12),
            month_cos |-> Cos(row.month.num, 12)]

\* feature_columns of train_model and of forecast
TrainFeatureColumns ==
    <<"day_sin", "day_cos", "month_sin", "month_cos", "day_of_month", "week_of_year">>
ForecastFeatureColumns ==
    <<"day_sin", "day_cos", "month_sin", "month_cos", "day_of_month", "week_of_year">>

\* df[columns], on one row: the named columns in the order asked for
Select(row, columns) ==
    [i \in 1..Len(columns) |-> [column |-> columns[i], value |-> row[columns[i]]]]

\* the row of X that train_model builds from a generated record
TrainVector(d, s) == Select(CreateFeatures(GenerateRow(d, s)), TrainFeatureColumns)

\* the row of future_df[feature_columns] that forecast builds for a date
ForecastVector(ts) == Select(CreateFeatures(FutureRow(ts)), ForecastFeatureColumns)

(***************************************************************************)
(* Estimators and the artifact file.                                       *)
(***************************************************************************)
\* self.model = None
NoModel == [kind |-> "None", id |-> 0, fitted |-> FALSE]

\* RandomForestRegressor(...): a new estimator, not fitted yet
NewEstimator(id) == [kind |-> "RandomForestRegressor", id |-> id, fitted |-> FALSE]

\* the estimator after self.model.fit(X_train, y_train)
Fitted(m) == [m EXCEPT !.fitted = TRUE]

\* sales_model.joblib: absent, holding a serialized estimator, or unreadable
Absent == [present |-> FALSE, readable |-> FALSE, id |-> 0, fitted |-> FALSE]
Unreadable == [present |-> TRUE, readable |-> FALSE, id |-> 0, fitted |-> FALSE]

\* the file joblib.dump(m, 'sales_model.joblib') leaves
Dumped(m) == [present |-> TRUE, readable |-> TRUE, id |-> m.id, fitted |-> m.fitted]

\* the estimator joblib.load returns for a readable file
Loaded(a) == [kind |-> "RandomForestRegressor", id |-> a.id, fitted |-> a.fitted]

\* Exists taking a file that cannot be read for no file
ExistsReadable(a) == a.present /\ a.readable

\* os.path.exists('sales_model.joblib')
Exists(a) == a.present

\* the artifact a previous process left behind: its estimator has identity 0
PreviousArtifact == Dumped(Fitted(NewEstimator(0)))

(***************************************************************************)
(* A call in progress: the object and file state st it has produced so     *)
(* far, the exception it has raised ("none" while it runs), the steps it   *)
(* has performed, and the records it returns.                              *)
(***************************************************************************)
Object(m, t, a) == [model |-> m, is_trained |-> t, artifact |-> a]

Start(s) == [st |-> s, raised |-> "none", did |-> {}, records |-> <<>>]

Raise(r, e) == [r EXCEPT !.raised = e]

Did(r, step) == [r EXCEPT !.did = @ \cup {step}]

\* where the environment makes train_model fail: nowhere, while the training
\* set is built, in fit, in the evaluation, in joblib.dump before the file is
\* opened, or in joblib.dump after the file was opened for writing
FailPoints == {"none", "features", "fit", "evaluate", "dump_open", "dump_write"}

(***************************************************************************)
(* SalesForecaster.train_model(), statement by statement.  A step of a     *)
(* call that has raised does nothing.                                      *)
(***************************************************************************)
\* lines 59-60: df is None, so the synthetic data is generated
GenerateStep(r) ==
    IF r.raised # "none" THEN r ELSE Did(r, "generate")

\* lines 62-74: create_features, the feature columns, the split
FeatureStep(r, fail) ==
    IF r.raised # "none" THEN r
    ELSE IF fail = "features" THEN Raise(r, "features")
    ELSE Did(r, "features")

\* ConstructStep that also clears the flag while the new estimator is unfitted
ConstructStepClearingFlag(r, id) ==
    IF r.raised # "none" THEN r
    ELSE Did([r EXCEPT !.st.model = NewEstimator(id), !.st.is_trained = FALSE],
             "construct")

\* lines 77-81: self.model = RandomForestRegressor(...)
ConstructStep(r, id) ==
    IF r.raised # "none" THEN r
    ELSE Did([r EXCEPT !.st.model = NewEstimator(id)], "construct")

\* line 83: self.model.fit(X_train, y_train)
FitStep(r, fail) ==
    IF r.raised # "none" THEN r
    ELSE IF fail = "fit" THEN Raise(r, "fit")
    ELSE Did([r EXCEPT !.st.model = Fitted(@)], "fit")

\* lines 86-88: predict on the held-out split, MAE and RMSE
EvaluateStep(r, fail) ==
    IF r.raised # "none" THEN r
    ELSE IF fail = "evaluate" THEN Raise(r, "evaluate")
    ELSE Did(r, "evaluate")

\* line 90: self.is_trained = True
MarkTrainedStep(r) ==
    IF r.raised # "none" THEN r
    ELSE Did([r EXCEPT !.st.is_trained = TRUE], "mark")

\* line 93: joblib.dump(self.model, 'sales_model.joblib').  It can raise
\* before the file is touched, or after the file was opened for writing,
\* which leaves a truncated file.
DumpStep(r, fail) ==
    IF r.raised # "none" THEN r
    ELSE IF fail = "dump_open" THEN Raise(r, "dump")
    ELSE IF fail = "dump_write"
         THEN Raise(Did([r EXCEPT !.st.artifact = Unreadable], "write"), "dump")
    ELSE Did([r EXCEPT !.st.artifact = Dumped(r.st.model)], "write")

\* train_model() entered by a call in progress r
TrainModelFrom(r, id, fail) ==
    DumpStep(
      MarkTrainedStep(
        EvaluateStep(
          FitStep(
            ConstructStep(
              FeatureStep(GenerateStep(r), fail), id), fail), fail)), fail)

\* train_model() called on the object in state s
TrainModelCall(s, id, fail) == TrainModelFrom(Start(s), id, fail)

(***************************************************************************)
(* SalesForecaster.forecast(days).                                         *)
(***************************************************************************)
\* NeedsInit without the test of the flag
NeedsInitAlways(s) == TRUE

\* line 102: if not self.is_trained
NeedsInit(s) == ~s.is_trained

\* lines 104-106: joblib.load raises on an unreadable file, before anything
\* is assigned
LoadStep(r) ==
    IF r.raised # "none" THEN r
    ELSE IF ~r.st.artifact.readable THEN Raise(Did(r, "read"), "load")
    ELSE Did([r EXCEPT !.st.model = Loaded(r.st.artifact),
                       !.st.is_trained = TRUE], "load")

\* InitStep that trains when the load raised
InitStepLoadThenTrain(r, id, fail) ==
    IF r.raised # "none" \/ ~NeedsInit(r.st) THEN r
    ELSE IF Exists(r.st.artifact) /\ LoadStep(r).raised = "none" THEN LoadStep(r)
    ELSE TrainModelFrom(r, id, fail)

\* lines 102-109: load the artifact if it exists, else train
InitStep(r, id, fail) ==
    IF r.raised # "none" \/ ~NeedsInit(r.st) THEN r
    ELSE IF Exists(r.st.artifact) THEN LoadStep(r)
    ELSE TrainModelFrom(r, id, fail)

\* FutureStart without the day added
FutureStartToday(ts) == Normalize(ts)

\* lines 112-117: the future dates.  pd.date_range raises on periods < 0
FutureStart(ts) == AddDays(Normalize(ts), 1)

FutureDates(ts, days) == DateRange(FutureStart(ts), days)

\* the value self.model.predict gives for one row: opaque, fixed by the
\* estimator and the row
Prediction(m, x) == [estimator |-> m.id, x |-> x]

\* lines 119-139: one record of result_df for each of the dates
Predictions(m, dates) ==
    [i \in 1..Len(dates) |->
        [date |-> dates[i], predicted_sales |-> Prediction(m, ForecastVector(dates[i]))]]

\* lines 119-142: the feature rows, predict, the result frame.  predict
\* raises when self.model is None, when the estimator is not fitted, and on
\* a frame of no rows
PredictStep(r, ts, days) ==
    IF r.raised # "none" THEN r
    ELSE IF days < 0 THEN Raise(r, "date_range")
    ELSE IF r.st.model.kind = "None" THEN Raise(r, "no_model")
    ELSE IF ~r.st.model.fitted THEN Raise(r, "not_fitted")
    ELSE IF days = 0 THEN Raise(r, "no_rows")
    ELSE [Did(r, "predict") EXCEPT !.records =
            Predictions(r.st.model, FutureDates(ts, days))]

\* forecast(days) called at time ts on the object in state s
ForecastCall(s, ts, days, id, fail) ==
    PredictStep(InitStep(Start(s), id, fail), ts, days)

(***************************************************************************)
(* GET /forecast (get_forecast) and the start-up training                  *)
(* (initialize_model) of app.py.                                           *)
(***************************************************************************)
Digits == <<"0", "1", "2", "3", "4", "5", "6", "7", "8", "9">>

IsDigit(c) == \E i \in 1..Len(Digits) : Digits[i] = c

DigitValue(c) == (CHOOSE i \in 1..Len(Digits) : Digits[i] = c) - 1

RECURSIVE Magnitude(_)
Magnitude(text) ==
    IF text = <<>> THEN 0
    ELSE Magnitude(SubSeq(text, 1, Len(text) - 1)) * 10 + DigitValue(text[Len(text)])

\* int(text): an optional sign and at least one decimal digit, else ValueError
ParseInt(text) ==
    LET signed == text # <<>> /\ text[1] \in {"-", "+"}
        body == IF signed THEN Tail(text) ELSE text
    IN  IF body = <<>> \/ \E i \in 1..Len(body) : ~IsDigit(body[i])
        THEN [ok |-> FALSE, value |-> 0]
        ELSE [ok |-> TRUE,
              value |-> IF signed /\ text[1] = "-" THEN 0 - Magnitude(body)
                        ELSE Magnitude(body)]

\* request.args.get('days', '30')
DefaultDays == <<"3", "0">>

DaysArg(req) == IF req.given THEN req.text ELSE DefaultDays

\* what jsonify makes of one forecast record
JsonRecord(rec) ==
    [date |-> [format |-> "http_date", of |-> rec.date],
     predicted_sales |-> rec.predicted_sales]

NoResponse ==
    [status |-> 0, json |-> FALSE, keys |-> {}, success |-> FALSE, days |-> 0,
     forecast |-> <<>>, error |-> "none"]

\* lines 336-345: the response of a request that raised nothing
SuccessResponse(days, records) ==
    [status |-> 200, json |-> TRUE,
     keys |-> {"success", "days", "total_predicted", "daily_average", "forecast",
               "generated_at"},
     success |-> TRUE, days |-> days,
     forecast |-> [i \in 1..Len(records) |-> JsonRecord(records[i])],
     error |-> "none"]

\* ErrorResponse without the status, as set_webhook returns its errors
ErrorResponseOk(e) ==
    [status |-> 200, json |-> TRUE, keys |-> {"success", "error"},
     success |-> FALSE, days |-> 0, forecast |-> <<>>, error |-> e]

\* lines 347-349: except Exception as e
ErrorResponse(e) ==
    [status |-> 500, json |-> TRUE, keys |-> {"success", "error"},
     success |-> FALSE, days |-> 0, forecast |-> <<>>, error |-> e]

\* lines 332-334: int(...) of the days argument, then forecaster.forecast
GetForecastCall(s, ts, req, id, fail) ==
    IF ParseInt(DaysArg(req)).ok
    THEN ForecastCall(s, ts, ParseInt(DaysArg(req)).value, id, fail)
    ELSE Raise(Start(s), "parse")

\* get_forecast's response to a call that ended as r
GetForecastResponse(req, r) ==
    IF r.raised = "none"
    THEN SuccessResponse(ParseInt(DaysArg(req)).value, r.records)
    ELSE ErrorResponse(r.raised)

\* initialize_model: train_model() inside try / except Exception, which logs
InitializeModelCall(s, id, fail) ==
    [TrainModelCall(s, id, fail) EXCEPT !.raised = "none"]

(***************************************************************************)
(* The state.                                                              *)
(*   model, is_trained  the fields of the one SalesForecaster (app.py:19)  *)
(*   artifact           the file sales_model.joblib                        *)
(*   built              estimators constructed so far                      *)
(*   phase              "main": app.py runs as a script and has not called *)
(*                      initialize_model yet; "serving": requests are      *)
(*                      served, after initialize_model or because the      *)
(*                      module was imported by a server, which never calls *)
(*                      it                                                 *)
(*   last               the last call: its operation, its request, its     *)
(*                      days argument, what                                *)
(*                      pd.Timestamp.now() gave it, the state it started   *)
(*                      in and how it ended                                *)
(*   fcLog              what the initialization of each of the last two    *)
(*                      forecast() calls did                               *)
(*   response           the HTTP response of the last call, when it was a  *)
(*                      request                                            *)
(*   enc                one date encoded on the training path and on the   *)
(*                      forecast path                                      *)
(*   threads            for each thread of the server: the statement it is *)
(*                      at, the call it is in, the estimator its fit() is  *)
(*                      running on, how its last call ended and what its   *)
(*                      last predict found in self.is_trained, self.model  *)
(***************************************************************************)
Self == Object(model, is_trained, artifact)

\* the days arguments of the requests, each with the integer it asks for
Request(given, text, valid, means) ==
    [given |-> given, text |-> text, valid |-> valid, means |-> means]

Requests ==
    {Request(FALSE, <<>>, TRUE, 30),
     Request(TRUE, <<"2">>, TRUE, 2),
     Request(TRUE, <<"0">>, TRUE, 0),
     Request(TRUE, <<"-", "1">>, TRUE, -1),
     Request(TRUE, <<"a", "b">>, FALSE, 0),
     Request(TRUE, <<>>, FALSE, 0)}

\* a call that is no request
NoRequest == Request(FALSE, <<>>, FALSE, 0)

NoCall ==
    [op |-> "none", req |-> NoRequest, days |-> 0, at |-> Timestamp(0, 0),
     pre |-> Object(NoModel, FALSE, Absent),
     raised |-> "none", did |-> {}, records |-> <<>>]

Call(op, req, days, ts, r) ==
    [op |-> op, req |-> req, days |-> days, at |-> ts, pre |-> Self,
     raised |-> r.raised, did |-> r.did, records |-> r.records]

EncIdle == [date |-> 0, sales |-> 0, train |-> <<>>, future |-> <<>>]

Threads == 1..MaxThreads

\* a thread that has not reached line 134 in its call
NotSeen == [at |-> "none", is_trained |-> FALSE, model |-> NoModel]

IdleThread == [pc |-> "idle", op |-> "none", ref |-> 0, raised |-> "none", seen |-> NotSeen]

AllIdle == [t \in Threads |-> IdleThread]

\* what lines 102-109 did in a call that performed the steps did: nothing, a
\* load, a training that reached line 90, or an attempt that raised before
InitOutcome(did) ==
    IF "load" \in did THEN "loaded"
    ELSE IF "mark" \in did THEN "trained"
    ELSE IF "read" \in did \/ "generate" \in did THEN "failed"
    ELSE "none"

\* the last two entries of a log extended by e
Logged(log, e) == IF Len(log) < 2 THEN Append(log, e) ELSE <<log[2], e>>

\* the object, the file and the count of estimators after a call that ended as r
Becomes(r) ==
    /\ model' = r.st.model
    /\ is_trained' = r.st.is_trained
    /\ artifact' = r.st.artifact
    /\ built' = IF "construct" \in r.did THEN built + 1 ELSE built

\* a call is taken with a failure point only when it trains, and trains only
\* while the bound on estimators allows it
Admissible(r, fail) ==
    /\ "generate" \notin r.did => fail = "none"
    /\ "generate" \in r.did => built < MaxTrain

Init ==
    /\ model = NoModel
    /\ is_trained = FALSE
    /\ artifact \in {Absent, Unreadable, PreviousArtifact}
    /\ built = 0
    /\ phase \in {"main", "serving"}
    /\ last = NoCall
    /\ fcLog = <<>>
    /\ response = NoResponse
    /\ enc = EncIdle
    /\ threads = AllIdle

\* the values pd.Timestamp.now() can give a call
Instants == {Timestamp(d, tod) : d \in 0..MaxDay, tod \in 0..MaxTod}

\* app.py run as a script: initialize_model() before the server starts
InitializeModel(fail) ==
    /\ phase = "main"
    /\ \E r \in {InitializeModelCall(Self, built + 1, fail)} :
           /\ Admissible(r, fail)
           /\ Becomes(r)
           /\ last' = Call("initialize_model", NoRequest, 0, Timestamp(0, 0), r)
    /\ phase' = "serving"
    /\ response' = NoResponse
    /\ UNCHANGED <<fcLog, enc, threads>>

\* forecaster.train_model() called directly
TrainModel(fail) ==
    /\ phase # "main"
    /\ \E r \in {TrainModelCall(Self, built + 1, fail)} :
           /\ Admissible(r, fail)
           /\ Becomes(r)
           /\ last' = Call("train_model", NoRequest, 0, Timestamp(0, 0), r)
    /\ response' = NoResponse
    /\ UNCHANGED <<phase, fcLog, enc, threads>>

\* forecaster.forecast(days) called directly (the bot's commands)
Forecast(days, ts, fail) ==
    /\ phase # "main"
    /\ Admissible(InitStep(Start(Self), built + 1, fail), fail)
    /\ \E r \in {ForecastCall(Self, ts, days, built + 1, fail)} :
           /\ Becomes(r)
           /\ last' = Call("forecast", NoRequest, days, ts, r)
           /\ fcLog' = Logged(fcLog, InitOutcome(r.did))
    /\ response' = NoResponse
    /\ UNCHANGED <<phase, enc, threads>>

\* GET /forecast?days=...
GetForecast(req, ts, fail) ==
    /\ phase # "main"
    /\ ParseInt(DaysArg(req)).ok
          => Admissible(InitStep(Start(Self), built + 1, fail), fail)
    /\ ~ParseInt(DaysArg(req)).ok => fail = "none"
    /\ \E r \in {GetForecastCall(Self, ts, req, built + 1, fail)} :
           /\ Becomes(r)
           /\ last' = Call("get_forecast", req, ParseInt(DaysArg(req)).value, ts, r)
           /\ fcLog' = IF r.raised = "parse" THEN fcLog
                       ELSE Logged(fcLog, InitOutcome(r.did))
           /\ response' = GetForecastResponse(req, r)
    /\ UNCHANGED <<phase, enc, threads>>

DirectDays == (-1)..MaxDays

Next ==
    \/ \E fail \in FailPoints : InitializeModel(fail)
    \/ \E fail \in FailPoints : TrainModel(fail)
    \/ \E days \in DirectDays, ts \in Instants, fail \in FailPoints :
           Forecast(days, ts, fail)
    \/ \E req \in Requests, ts \in Instants, fail \in FailPoints :
           GetForecast(req, ts, fail)

Spec == Init /\ [][Next]_vars

(***************************************************************************)
(* The two encodings of one date: the row train_model builds from the      *)
(* generated record of the date, and the row forecast builds when the date *)
(* is the first one it forecasts.                                          *)
(***************************************************************************)
InitEnc ==
    /\ model = NoModel
    /\ is_trained = FALSE
    /\ artifact = Absent
    /\ built = 0
    /\ phase = "serving"
    /\ last = NoCall
    /\ fcLog = <<>>
    /\ response = NoResponse
    /\ threads = AllIdle
    /\ enc \in {[date |-> d, sales |-> s, train |-> <<>>, future |-> <<>>] :
                   d \in 0..MaxEncDay, s \in 0..MaxSales}

\* train_model, lines 60-68, on the generated record of the date
EncodeTraining ==
    /\ enc.train = <<>>
    /\ enc' = [enc EXCEPT !.train = TrainVector(enc.date, enc.sales)]
    /\ UNCHANGED <<model, is_trained, artifact, built, phase, last, fcLog, response,
                   threads>>

\* forecast, lines 112-134, called at the time of day tod of the day before
EncodeForecast(tod) ==
    /\ enc.future = <<>>
    /\ enc' = [enc EXCEPT !.future =
                 ForecastVector(FutureDates(Timestamp(enc.date - 1, tod), 1)[1])]
    /\ UNCHANGED <<model, is_trained, artifact, built, phase, last, fcLog, response,
                   threads>>

NextEnc ==
    \/ EncodeTraining
    \/ \E tod \in 0..MaxTod : EncodeForecast(tod)

SpecEnc == InitEnc /\ [][NextEnc]_vars

(***************************************************************************)
(* The threads of the server (app.run serves each request in a thread of   *)
(* its own) calling forecast() and train_model() on the one forecaster,    *)
(* one statement at a time.  Nothing in model.py or app.py locks.          *)
(***************************************************************************)
InitConc ==
    /\ model = NoModel
    /\ is_trained = FALSE
    /\ artifact \in {Absent, Unreadable, PreviousArtifact}
    /\ built = 0
    /\ phase = "serving"
    /\ last = NoCall
    /\ fcLog = <<>>
    /\ response = NoResponse
    /\ enc = EncIdle
    /\ threads = AllIdle

\* thread t moves to statement pc
Goto(t, pc) == threads' = [threads EXCEPT ![t].pc = pc]

\* the call of thread t ends, raising e ("none" when it returns)
Return(t, e) == threads' = [threads EXCEPT ![t].pc = "idle", ![t].raised = e]

Unshared == <<phase, last, fcLog, response, enc>>

\* thread t enters forecast()
CallForecast(t) ==
    /\ threads[t].pc = "idle"
    /\ threads' = [threads EXCEPT ![t] = [IdleThread EXCEPT !.pc = "check", !.op = "forecast"]]
    /\ UNCHANGED <<model, is_trained, artifact, built, Unshared>>

\* thread t enters train_model()
CallTrainModel(t) ==
    /\ threads[t].pc = "idle"
    /\ threads' = [threads EXCEPT ![t] = [IdleThread EXCEPT !.pc = "generate", !.op = "train_model"]]
    /\ UNCHANGED <<model, is_trained, artifact, built, Unshared>>

\* line 102: if not self.is_trained
CheckTrained(t) ==
    /\ threads[t].pc = "check"
    /\ Goto(t, IF NeedsInit(Self) THEN "exists" ELSE "predict")
    /\ UNCHANGED <<model, is_trained, artifact, built, Unshared>>

\* line 103: if os.path.exists('sales_model.joblib')
CheckExists(t) ==
    /\ threads[t].pc = "exists"
    /\ Goto(t, IF Exists(artifact) THEN "load" ELSE "generate")
    /\ UNCHANGED <<model, is_trained, artifact, built, Unshared>>

\* line 104: self.model = joblib.load('sales_model.joblib')
LoadModel(t) ==
    /\ threads[t].pc = "load"
    /\ \E r \in {LoadStep(Start(Self))} :
           /\ model' = r.st.model
           /\ IF r.raised = "none" THEN Goto(t, "load_mark") ELSE Return(t, r.raised)
    /\ UNCHANGED <<is_trained, artifact, built, Unshared>>

\* line 105: self.is_trained = True
LoadMark(t) ==
    /\ threads[t].pc = "load_mark"
    /\ is_trained' = MarkTrainedStep(Start(Self)).st.is_trained
    /\ Goto(t, "predict")
    /\ UNCHANGED <<model, artifact, built, Unshared>>

\* lines 59-74: the synthetic data, the features, the split
BuildTrainingSet(t) ==
    /\ threads[t].pc = "generate"
    /\ FeatureStep(GenerateStep(Start(Self)), "none").raised = "none"
    /\ Goto(t, "construct")
    /\ UNCHANGED <<model, is_trained, artifact, built, Unshared>>

\* lines 77-81: self.model = RandomForestRegressor(...)
Construct(t) ==
    /\ threads[t].pc = "construct"
    /\ built < MaxTrain
    /\ model' = ConstructStep(Start(Self), built + 1).st.model
    /\ built' = built + 1
    /\ Goto(t, "fit")
    /\ UNCHANGED <<is_trained, artifact, Unshared>>

\* line 83, entered: self.model is read and fit starts on that estimator
FitBegin(t) ==
    /\ threads[t].pc = "fit"
    /\ threads' = [threads EXCEPT ![t].pc = "fitting", ![t].ref = model.id]
    /\ UNCHANGED <<model, is_trained, artifact, built, Unshared>>

\* line 83, returning: the estimator fit ran on is fitted; it is self.model
\* unless another thread has assigned self.model since
FitEnd(t) ==
    /\ threads[t].pc = "fitting"
    /\ model' = IF model.id = threads[t].ref
                 THEN FitStep(Start(Self), "none").st.model
                 ELSE model
    /\ Goto(t, "evaluate")
    /\ UNCHANGED <<is_trained, artifact, built, Unshared>>

\* lines 86-88: self.model.predict(X_test), which raises on an estimator
\* that is not fitted
Evaluate(t) ==
    /\ threads[t].pc = "evaluate"
    /\ IF model.fitted THEN Goto(t, "mark") ELSE Return(t, "not_fitted")
    /\ UNCHANGED <<model, is_trained, artifact, built, Unshared>>

\* line 90: self.is_trained = True
Mark(t) ==
    /\ threads[t].pc = "mark"
    /\ is_trained' = MarkTrainedStep(Start(Self)).st.is_trained
    /\ Goto(t, "dump")
    /\ UNCHANGED <<model, artifact, built, Unshared>>

\* lines 93-98: joblib.dump(self.model, ...), and train_model returns: to its
\* caller, or into forecast() at line 111
Dump(t) ==
    /\ threads[t].pc = "dump"
    /\ artifact' = DumpStep(Start(Self), "none").st.artifact
    /\ IF threads[t].op = "forecast" THEN Goto(t, "predict") ELSE Return(t, "none")
    /\ UNCHANGED <<model, is_trained, built, Unshared>>

\* lines 112-142: the future rows, which touch nothing shared, and line 134,
\* self.model.predict, which reads self.model
Predict(t, ts, days) ==
    /\ threads[t].pc = "predict"
    /\ threads' = [threads EXCEPT
                      ![t].pc = "idle",
                      ![t].raised = PredictStep(Start(Self), ts, days).raised,
                      ![t].seen = [at |-> "predict", is_trained |-> is_trained,
                                   model |-> model]]
    /\ UNCHANGED <<model, is_trained, artifact, built, Unshared>>

NextConc ==
    \E t \in Threads :
        \/ CallForecast(t)
        \/ CallTrainModel(t)
        \/ CheckTrained(t)
        \/ CheckExists(t)
        \/ LoadModel(t)
        \/ LoadMark(t)
        \/ BuildTrainingSet(t)
        \/ Construct(t)
        \/ FitBegin(t)
        \/ FitEnd(t)
        \/ Evaluate(t)
        \/ Mark(t)
        \/ Dump(t)
        \/ \E ts \in Instants, days \in 1..MaxDays : Predict(t, ts, days)

SpecConc == InitConc /\ [][NextConc]_vars

(***************************************************************************)
(* Properties.                                                             *)
(***************************************************************************)
ForecastOps == {"forecast", "get_forecast"}

\* the last call entered SalesForecaster.forecast
InForecast == last.op \in ForecastOps /\ last.raised # "parse"

TrainingSteps == {"generate", "features", "construct", "fit", "evaluate", "mark"}

InitSteps == TrainingSteps \cup {"read", "load", "write"}

\* C1: a forecast(days) call with days >= 1 that returns gives exactly days
\* records; the first is dated the start of the day after the call time and
\* each further one is dated one day after the one before it.
C1_ForecastDates ==
    (InForecast /\ last.raised = "none" /\ last.days >= 1) =>
        /\ Len(last.records) = last.days
        /\ last.records[1].date = [day |-> last.at.day + 1, tod |-> 0]
        /\ \A i \in 1..(Len(last.records) - 1) :
               /\ last.records[i + 1].date.day = last.records[i].date.day + 1
               /\ last.records[i + 1].date.tod = last.records[i].date.tod

\* a forecast of several days, made later than the start of a day, that
\* trained the model inside the call
C1_Witness ==
    /\ InForecast /\ last.raised = "none" /\ last.days >= 2
    /\ last.at.tod > 0
    /\ "mark" \in last.did

\* C2: a forecast() call that starts with is_trained set performs no step of
\* training or loading, writes no artifact and leaves is_trained, the
\* estimator and the artifact as they were; and of any two forecast() calls
\* in sequence at most one completes a load or a training.
C2_TrainedForecastIsNoOp ==
    /\ (InForecast /\ last.pre.is_trained) =>
           /\ last.did \cap InitSteps = {}
           /\ Self = last.pre
    /\ Len(fcLog) = 2 =>
           ~(fcLog[1] \in {"loaded", "trained"} /\ fcLog[2] \in {"loaded", "trained"})

\* two forecast() calls in sequence from Uninitialized: the first initialized,
\* the second returned its records without initializing
C2_Witness ==
    /\ Len(fcLog) = 2 /\ fcLog[1] \in {"loaded", "trained"} /\ fcLog[2] = "none"
    /\ InForecast /\ last.pre.is_trained /\ last.raised = "none"

\* C3: when train_model() raises in a service that was Uninitialized,
\* is_trained is still False afterwards.
C3_FailedTrainingLeavesUninitialized ==
    (/\ last.op \in {"train_model", "forecast", "get_forecast"}
     /\ ~last.pre.is_trained
     /\ "generate" \in last.did
     /\ last.raised \in {"features", "fit", "evaluate", "dump"}) => ~is_trained

\* C4: when is_trained is set, a fitted estimator is in memory or one can be
\* loaded from the artifact, and the artifact, when present, holds the
\* estimator that is in memory.
C4_TrainedModelInvariant ==
    is_trained =>
        /\ (model.kind # "None" /\ model.fitted) \/ (artifact.readable /\ artifact.fitted)
        /\ artifact.present => artifact = Dumped(model)

\* C5: is_trained never goes from True to False, and it goes from False to
\* True only in a call that reached line 90 of train_model or loaded the
\* artifact.
C5_TrainedIsStable ==
    [][/\ is_trained => is_trained'
       /\ (~is_trained /\ is_trained') =>
              /\ last'.op \in {"train_model", "initialize_model", "forecast",
                               "get_forecast"}
              /\ ("mark" \in last'.did) # ("load" \in last'.did)]_vars

\* a train_model() that raised in fit in a service that was Trained, and is
\* still Trained
C5_Witness ==
    /\ last.op = "train_model" /\ last.pre.is_trained /\ last.raised = "fit"
    /\ is_trained

\* C6: forecast() called in Uninitialized loads the artifact when the file
\* exists, without a step of training and without writing it, and trains when
\* it does not exist, never both; when the load raises, the exception reaches
\* the caller, nothing is trained and is_trained stays False.
C6_LoadOrTrain ==
    (InForecast /\ ~last.pre.is_trained) =>
        /\ last.pre.artifact.present =>
               /\ last.did \cap TrainingSteps = {}
               /\ "write" \notin last.did
               /\ artifact = last.pre.artifact
        /\ (last.pre.artifact.present /\ last.pre.artifact.readable) =>
               /\ "load" \in last.did
               /\ is_trained
               /\ model.id = last.pre.artifact.id
               /\ model.fitted = last.pre.artifact.fitted
        /\ (last.pre.artifact.present /\ ~last.pre.artifact.readable) =>
               /\ last.raised = "load"
               /\ last.records = <<>>
               /\ ~is_trained
               /\ model = last.pre.model
        /\ ~last.pre.artifact.present =>
               /\ "generate" \in last.did
               /\ last.did \cap {"read", "load"} = {}
        /\ ~("load" \in last.did /\ "generate" \in last.did)

\* a forecast() in Uninitialized whose load of the artifact raised
C6_Witness ==
    /\ InForecast /\ ~last.pre.is_trained
    /\ last.pre.artifact.present /\ last.raised = "load"
    /\ ~is_trained

\* C7, as claimed: synthetic data is generated, and a model trained, only in
\* a call that found no artifact file, start-up included.
C7_GeneratesOnlyWithoutArtifact ==
    "generate" \in last.did => ~last.pre.artifact.present

\* C7, amended: forecast() generates synthetic data, trains and writes the
\* artifact only when it found is_trained False and no artifact file;
\* train_model() called directly, as initialize_model() calls it at start-up,
\* always generates the data.
C7_ForecastGeneratesOnlyWithoutArtifact ==
    /\ (InForecast /\ last.did \cap (TrainingSteps \cup {"write"}) # {}) =>
           /\ ~last.pre.is_trained
           /\ ~last.pre.artifact.present
    /\ last.op \in {"train_model", "initialize_model"} => "generate" \in last.did

\* a forecast() that trained and wrote the artifact
C7_Witness ==
    /\ InForecast /\ "generate" \in last.did /\ "write" \in last.did
    /\ artifact.present

\* C8: a forecast call with days <= 0 fails, returns no records, and is
\* rejected before any step of loading or training: is_trained, the
\* estimator and the artifact are as before the call.
C8_NonPositiveDaysRejectedFirst ==
    (InForecast /\ last.days <= 0) =>
        /\ last.raised # "none"
        /\ last.records = <<>>
        /\ last.did = {}
        /\ Self = last.pre

\* C9: the feature row train_model builds from the generated record of a
\* date equals the row forecast builds for that date: the same six columns,
\* in the same order, with the same values.
C9_SameEncoding ==
    (enc.train # <<>> /\ enc.future # <<>>) =>
        /\ Len(enc.train) = 6
        /\ enc.train = enc.future

\* the 29th of February 2024, encoded on both paths
C9_Witness ==
    /\ enc.train # <<>> /\ enc.future # <<>>
    /\ enc.future[5].value.num = 29 /\ enc.future[3].value.num = 2

\* C10: every GET /forecast is answered, and the server keeps serving.  A
\* request that raised, in int() or in forecast(), gets status 500 with the
\* JSON body {success: false, error: <string>}; one that did not gets
\* success = true, days equal to the requested number and a forecast list
\* of that length.
C10_RequestAlwaysAnswered ==
    last.op = "get_forecast" =>
        /\ phase = "serving"
        /\ response.json
        /\ last.raised # "none" =>
               /\ response.status = 500
               /\ response.keys = {"success", "error"}
               /\ ~response.success
               /\ response.error = last.raised
        /\ last.raised = "none" =>
               /\ response.status \in 200..299
               /\ response.success
               /\ last.req.valid
               /\ response.days = last.req.means
               /\ Len(response.forecast) = response.days
        /\ ~last.req.valid => last.raised # "none"

\* a request whose forecast() raised after int() accepted its days
C10_Witness ==
    /\ last.op = "get_forecast" /\ last.req.valid
    /\ last.raised \notin {"none", "parse"}
    /\ response.status = 500

\* C11: under every interleaving of forecast() and train_model() calls,
\* line 134 of forecast() finds is_trained set and self.model a fitted
\* estimator: never None, and never an estimator that a train_model() still
\* running in another thread has constructed and not yet fitted.
C11_PredictFindsFittedEstimator ==
    \A t \in Threads :
        threads[t].seen.at = "predict" =>
            /\ threads[t].seen.is_trained
            /\ threads[t].seen.model.kind # "None"
            /\ threads[t].seen.model.fitted

====
